---- MODULE Spec2Model ----
(***************************************************************************)
(* Model of packages/core/src/core/contentGenerator.ts:                    *)
(*   createContentGeneratorConfig  (the credential resolver),              *)
(*   createContentGenerator        (the generator factory), and            *)
(*   the OpenAI wrapper it returns (the chat-completion adapter).          *)
(*                                                                         *)
(* JavaScript values are represented as follows.  A string is a TLA+       *)
(* string; the value undefined of a string-typed expression is the         *)
(* sentinel Undefined.  An object is a record whose DOMAIN holds exactly   *)
(* the properties that were assigned, so an optional property that was     *)
(* never set is absent from the DOMAIN.  A value whose runtime type the    *)
(* code tests (typeof, Array.isArray) carries a tag field t.               *)
(***************************************************************************)
EXTENDS Integers, Sequences, FiniteSets, TLC

VARIABLES env, configs, pending, lastResolve, handles, lastCreate, inflight,
          lastCall

vars == <<env, configs, pending, lastResolve, handles, lastCreate, inflight,
          lastCall>>

(***************************************************************************)
(* Bounds of the exploration.                                              *)
(***************************************************************************)
MaxConfigs == 2
MaxPending == 2
MaxHandles == 2
MaxInflight == 2
MaxContents == 2
MaxParts == 2
MaxChoices == 2

(***************************************************************************)
(* JavaScript helpers.                                                     *)
(***************************************************************************)
Undefined == "undefined"

\* truthiness of a value of type string | undefined
Truthy(s) == s /= Undefined /\ s /= ""

\* a || b
Or(a, b) == IF Truthy(a) THEN a ELSE b

\* x ?? d
Nullish(x, d) == IF x = Undefined THEN d ELSE x

\* o.f for a property that may be absent
Field(o, f) == IF f \in DOMAIN o THEN o[f] ELSE Undefined

SeqsUpTo(S, n) == UNION {[1..k -> S] : k \in 0..n}

(***************************************************************************)
(* enum AuthType                                                           *)
(***************************************************************************)
LOGIN_WITH_GOOGLE == "oauth-personal"
USE_GEMINI == "gemini-api-key"
USE_VERTEX_AI == "vertex-ai"
USE_OPENAI == "openai"

AuthType == {LOGIN_WITH_GOOGLE, USE_GEMINI, USE_VERTEX_AI, USE_OPENAI}

DEFAULT_GEMINI_MODEL == "gemini-2.5-pro"
DEFAULT_GEMINI_FLASH_MODEL == "gemini-2.5-flash"
DEFAULT_OPENAI_MODEL == "o4-mini"

(***************************************************************************)
(* The process environment: the five variables the resolver reads.  Each   *)
(* is unset, set to the empty string, or set to a value of its own.        *)
(***************************************************************************)
EnvVars == {"GEMINI_API_KEY", "GOOGLE_API_KEY", "GOOGLE_CLOUD_PROJECT",
            "GOOGLE_CLOUD_LOCATION", "OPENAI_API_KEY"}

EnvValue(v) ==
    CASE v = "GEMINI_API_KEY" -> "gemini-key"
      [] v = "GOOGLE_API_KEY" -> "google-key"
      [] v = "GOOGLE_CLOUD_PROJECT" -> "proj"
      [] v = "GOOGLE_CLOUD_LOCATION" -> "us-central1"
      [] v = "OPENAI_API_KEY" -> "openai-key"

Envs == {e \in [EnvVars -> {Undefined, "", "gemini-key", "google-key", "proj",
                            "us-central1", "openai-key"}] :
            \A v \in EnvVars : e[v] \in {Undefined, "", EnvValue(v)}}

\* the environment of the container image: only OPENAI_API_KEY is set, to ""
ImageEnv == [v \in EnvVars |-> IF v = "OPENAI_API_KEY" THEN "" ELSE Undefined]

\* every variable set
CloudEnv == [v \in EnvVars |-> EnvValue(v)]

\* the cloud key and project set, the location and the direct key empty
PartialEnv ==
    [v \in EnvVars |->
        IF v \in {"GOOGLE_API_KEY", "GOOGLE_CLOUD_PROJECT", "OPENAI_API_KEY"}
        THEN EnvValue(v)
        ELSE IF v = "GEMINI_API_KEY" THEN "" ELSE Undefined]

SomeEnvs == {ImageEnv, CloudEnv, PartialEnv}

(***************************************************************************)
(* getEffectiveModel(apiKey, model): the model that is usable with the     *)
(* key.  available is the outcome of its availability probe.               *)
(***************************************************************************)
getEffectiveModel(apiKey, model, available) ==
    IF available THEN model ELSE DEFAULT_GEMINI_FLASH_MODEL

(***************************************************************************)
(* createContentGeneratorConfig                                            *)
(***************************************************************************)
\* variant: the requested model takes precedence over the override
EffectiveModelMutant(model, override) ==
    Or(Or(model, override), DEFAULT_GEMINI_MODEL)

\* config?.getModel?.() || model || DEFAULT_GEMINI_MODEL
\* override is Undefined when no getModel was supplied
EffectiveModel(model, override) ==
    Or(Or(override, model), DEFAULT_GEMINI_MODEL)

\* variant: the condition reads the other key variable
GeminiReadyMutant(e, authType) ==
    authType = USE_GEMINI /\ Truthy(e["GOOGLE_API_KEY"])

\* authType === AuthType.USE_GEMINI && geminiApiKey
GeminiReady(e, authType) ==
    authType = USE_GEMINI /\ Truthy(e["GEMINI_API_KEY"])

\* variant: the location is not required
VertexReadyMutant(e, authType) ==
    /\ authType = USE_VERTEX_AI
    /\ Truthy(e["GOOGLE_API_KEY"])
    /\ Truthy(e["GOOGLE_CLOUD_PROJECT"])

\* authType === AuthType.USE_VERTEX_AI && !!googleApiKey &&
\* googleCloudProject && googleCloudLocation
VertexReady(e, authType) ==
    /\ authType = USE_VERTEX_AI
    /\ Truthy(e["GOOGLE_API_KEY"])
    /\ Truthy(e["GOOGLE_CLOUD_PROJECT"])
    /\ Truthy(e["GOOGLE_CLOUD_LOCATION"])

\* authType === AuthType.USE_OPENAI && openaiApiKey
OpenAIKeyReady(e, authType) ==
    authType = USE_OPENAI /\ Truthy(e["OPENAI_API_KEY"])

\* The call up to its first suspension: the config object as built so far
\* and the calls made to getEffectiveModel, in order.  With no call made the
\* function has returned and config is its result; otherwise it is suspended
\* at the await, the key (and vertexai) already assigned, the model not yet.
ConfigUntilAwait(e, model, authType, override) ==
    LET effectiveModel == EffectiveModel(model, override)
        base == [model |-> effectiveModel, authType |-> authType]
    IN  IF authType = LOGIN_WITH_GOOGLE
        THEN [config |-> base, probes |-> <<>>]
        ELSE IF GeminiReady(e, authType)
        THEN [config |-> [model |-> effectiveModel,
                          authType |-> authType,
                          apiKey |-> e["GEMINI_API_KEY"]],
              probes |-> << <<e["GEMINI_API_KEY"], effectiveModel>> >>]
        ELSE IF VertexReady(e, authType)
        THEN [config |-> [model |-> effectiveModel,
                          authType |-> authType,
                          apiKey |-> e["GOOGLE_API_KEY"],
                          vertexai |-> TRUE],
              probes |-> << <<e["GOOGLE_API_KEY"], effectiveModel>> >>]
        ELSE IF OpenAIKeyReady(e, authType)
        THEN [config |-> [model |-> effectiveModel,
                          authType |-> authType,
                          apiKey |-> e["OPENAI_API_KEY"]],
              probes |-> <<>>]
        ELSE [config |-> base, probes |-> <<>>]

\* The continuation after the await: contentGeneratorConfig.model = <answer>;
\* return contentGeneratorConfig
ConfigAfterAwait(partial, answer) ==
    [partial EXCEPT !.model = answer]

\* The whole call when getEffectiveModel answers: the returned config and the
\* calls made to getEffectiveModel.
createContentGeneratorConfig(e, model, authType, override, available) ==
    LET s == ConfigUntilAwait(e, model, authType, override)
    IN  IF s.probes = <<>>
        THEN s
        ELSE [config |-> ConfigAfterAwait(s.config,
                             getEffectiveModel(s.probes[1][1], s.probes[1][2],
                                               available)),
              probes |-> s.probes]

\* the reason the promise awaited at line 78 or 93 rejects with, when it
\* rejects: the await throws it (a token for whatever value that is)
ProbeError == "getEffectiveModel failed"

(***************************************************************************)
(* createContentGenerator                                                  *)
(***************************************************************************)
\* the options handed to new GoogleGenAI(...)
GoogleGenAIOptions(c) ==
    LET key == IF Field(c, "apiKey") = "" THEN Undefined ELSE Field(c, "apiKey")
    IN  IF "vertexai" \in DOMAIN c
        THEN [sdk |-> "GoogleGenAI", apiKey |-> key, vertexai |-> c.vertexai]
        ELSE [sdk |-> "GoogleGenAI", apiKey |-> key]

\* the arguments handed to createCodeAssistContentGenerator(...)
CodeAssistCall(c) ==
    [sdk |-> "CodeAssist", authType |-> c.authType]

\* the reason the promise returned at line 120 rejects with, when it rejects
\* (a token for whatever value that is)
CodeAssistError == "createCodeAssistContentGenerator failed"

\* variant: the key is not tested
OpenAISelectedMutant(c) ==
    c.authType = USE_OPENAI

\* config.authType === AuthType.USE_OPENAI && config.apiKey
OpenAISelected(c) ==
    c.authType = USE_OPENAI /\ Truthy(Field(c, "apiKey"))

UnsupportedAuthType(c) ==
    "Error creating contentGenerator: Unsupported authType: " \o c.authType

\* variant: the GoogleGenAI branch requires a key
createContentGeneratorMutant(c, o) ==
    IF c.authType = LOGIN_WITH_GOOGLE
    THEN [awaits |-> << CodeAssistCall(c) >>,
          clients |-> <<>>, handle |-> <<>>, error |-> <<>>]
    ELSE IF c.authType \in {USE_GEMINI, USE_VERTEX_AI} /\ Truthy(Field(c, "apiKey"))
    THEN [awaits |-> <<>>,
          clients |-> << GoogleGenAIOptions(c) >>,
          handle |-> << [kind |-> "googleGenAI.models",
                         client |-> GoogleGenAIOptions(c)] >>,
          error |-> <<>>]
    ELSE IF OpenAISelected(c)
    THEN [awaits |-> <<>>,
          clients |-> << [sdk |-> "OpenAI", apiKey |-> Field(c, "apiKey")] >>,
          handle |-> << [kind |-> "openaiWrapper",
                         client |-> [sdk |-> "OpenAI", apiKey |-> Field(c, "apiKey")],
                         obj |-> o,
                         created |-> c] >>,
          error |-> <<>>]
    ELSE [awaits |-> <<>>, clients |-> <<>>, handle |-> <<>>,
          error |-> << UnsupportedAuthType(c) >>]

\* The call on the config object number o, whose contents are c, up to its
\* return: the collaborator call whose promise it returns (awaits), the
\* backend clients it constructed, and either the handle it returned or the
\* message of the Error it threw.  With a collaborator call the outcome is
\* that promise's.  A handle records the client it wraps; the OpenAI wrapper
\* also keeps the config object it closes over (obj), and created is that
\* object's contents when the handle was created (a history field, not read
\* by any operation).  The httpOptions (the User-Agent header) and the
\* sessionId are passed through to the clients and are left out.
createContentGenerator(c, o) ==
    IF c.authType = LOGIN_WITH_GOOGLE
    THEN [awaits |-> << CodeAssistCall(c) >>,
          clients |-> <<>>, handle |-> <<>>, error |-> <<>>]
    ELSE IF c.authType = USE_GEMINI \/ c.authType = USE_VERTEX_AI
    THEN [awaits |-> <<>>,
          clients |-> << GoogleGenAIOptions(c) >>,
          handle |-> << [kind |-> "googleGenAI.models",
                         client |-> GoogleGenAIOptions(c)] >>,
          error |-> <<>>]
    ELSE IF OpenAISelected(c)
    THEN [awaits |-> <<>>,
          clients |-> << [sdk |-> "OpenAI", apiKey |-> Field(c, "apiKey")] >>,
          handle |-> << [kind |-> "openaiWrapper",
                         client |-> [sdk |-> "OpenAI", apiKey |-> Field(c, "apiKey")],
                         obj |-> o,
                         created |-> c] >>,
          error |-> <<>>]
    ELSE [awaits |-> <<>>, clients |-> <<>>, handle |-> <<>>,
          error |-> << UnsupportedAuthType(c) >>]

(***************************************************************************)
(* The OpenAI wrapper returned by createContentGenerator.                  *)
(*                                                                         *)
(* request.contents is a string, an array or an object; the wrapper tests  *)
(* which, so a value carries its runtime type in the field t.  An array    *)
(* value keeps its elements in items; the parts of an object are a plain   *)
(* sequence (the wrapper reads them only after Array.isArray).             *)
(***************************************************************************)
Str(s) == [t |-> "string", v |-> s]
Arr(items) == [t |-> "array", items |-> items]

\* variant: join(' ')
RECURSIVE JoinSpaceMutant(_)
JoinSpaceMutant(strs) ==
    IF Len(strs) = 0 THEN ""
    ELSE IF Len(strs) = 1 THEN strs[1]
    ELSE strs[1] \o " " \o JoinSpaceMutant(Tail(strs))

\* array.join('\n')
RECURSIVE JoinNewline(_)
JoinNewline(strs) ==
    IF Len(strs) = 0 THEN ""
    ELSE IF Len(strs) = 1 THEN strs[1]
    ELSE strs[1] \o "\n" \o JoinNewline(Tail(strs))

\* (p) => typeof p === 'string' ? p : (p.text ?? '')
PartText(p) ==
    IF p.t = "string" THEN p.v ELSE Nullish(Field(p, "text"), "")

\* the callback of request.contents.map
ContentText(c) ==
    IF c.t = "string" THEN c.v
    ELSE IF "text" \in DOMAIN c THEN Nullish(c.text, "")
    ELSE IF "parts" \in DOMAIN c
    THEN JoinNewline([i \in 1..Len(c.parts) |-> PartText(c.parts[i])])
    ELSE ""

\* the prompt computed from request.contents
PromptOf(contents) ==
    IF contents.t = "string" THEN contents.v
    ELSE IF contents.t = "array"
    THEN JoinNewline([i \in 1..Len(contents.items) |-> ContentText(contents.items[i])])
    ELSE IF "text" \in DOMAIN contents THEN Nullish(contents.text, "")
    ELSE ""

\* the argument of openai.chat.completions.create, read from the config
\* object the wrapper closes over
ChatCompletionRequest(c, contents) ==
    [model |-> Or(c.model, DEFAULT_OPENAI_MODEL),
     messages |-> << [role |-> "user", content |-> PromptOf(contents)] >>]

\* variant: the last choice is returned
WrapCompletionMutant(completion) ==
    [candidates |-> << [content |->
        [parts |-> << [text |-> completion[Len(completion)]] >>]] >>]

\* the value returned after the completion arrived; a completion is the
\* sequence of the message contents of its choices
WrapCompletion(completion) ==
    [candidates |-> << [content |->
        [parts |-> << [text |-> completion[1]] >>]] >>]

\* variant: the request is sent and its answer returned as a stream
generateContentStreamMutant(request) ==
    [sent |-> << request >>, error |-> <<>>]

\* The three operations the wrapper does not support: what the call sends
\* to the backend, and the message of the Error it throws.
generateContentStream(request) ==
    [sent |-> <<>>, error |-> << "OpenAI streaming not implemented" >>]

countTokens(request) ==
    [sent |-> <<>>, error |-> << "OpenAI token counting not implemented" >>]

embedContent(request) ==
    [sent |-> <<>>, error |-> << "OpenAI embedding not implemented" >>]

(***************************************************************************)
(* Inputs.                                                                 *)
(***************************************************************************)
ModelArgs == {Undefined, "", "m-req"}
Overrides == {Undefined, "", "m-cfg"}
AuthArgs == AuthType \cup {Undefined}

\* configs a caller can hand to createContentGenerator without the resolver
CallerConfigs ==
    {[model |-> "m1", authType |-> a] : a \in {Undefined, "bogus", USE_OPENAI}}
    \cup {[model |-> "m1", authType |-> a, apiKey |-> "k1"] :
            a \in {Undefined, "bogus", USE_OPENAI}}
    \cup {[model |-> "m1", authType |-> a, apiKey |-> ""] :
            a \in {USE_OPENAI, USE_GEMINI}}

\* configs that select the OpenAI wrapper
AdapterConfigs ==
    {[model |-> m, authType |-> USE_OPENAI, apiKey |-> "k1"] : m \in {"", "m1"}}

\* request.contents values
PartValues == {Str("c"), [t |-> "object", text |-> "b"], [t |-> "object"]}

PartLists == SeqsUpTo(PartValues, MaxParts)

ContentValues ==
    {Str("a"), [t |-> "object", text |-> "a"], [t |-> "object", text |-> Undefined],
     [t |-> "object"],
     [t |-> "object", text |-> "a", parts |-> << Str("c") >>]}
    \cup {[t |-> "object", parts |-> ps] : ps \in PartLists}

ContentsValues ==
    {Str("a"), Str(""), [t |-> "object", text |-> "a"],
     [t |-> "object", text |-> Undefined], [t |-> "object"],
     [t |-> "object", parts |-> << Str("c") >>]}
    \cup {Arr(items) : items \in SeqsUpTo(ContentValues, MaxContents)}

\* [ {text: "a"}, {parts: [ {text: "b"}, "c" ]} ]
ExampleContents ==
    Arr(<< [t |-> "object", text |-> "a"],
           [t |-> "object", parts |-> << [t |-> "object", text |-> "b"], Str("c") >>] >>)

SomeContents == {Str("hi"), ExampleContents}

MessageTexts == {"hello", ""}

Completions == UNION {[1..k -> MessageTexts] : k \in 1..MaxChoices}

(***************************************************************************)
(* State.                                                                  *)
(*   env          process.env, read by the resolver                        *)
(*   configs      the ContentGeneratorConfig objects that exist, in the    *)
(*                order they were returned or built; an object is named    *)
(*                by its position                                          *)
(*   pending      the calls suspended at an await, each with what it       *)
(*                holds: a resolver call waiting for getEffectiveModel, or *)
(*                a factory call waiting for                               *)
(*                createCodeAssistContentGenerator                         *)
(*   handles      the ContentGenerator handles returned so far             *)
(*   inflight     the requests handed to an OpenAI client and not answered *)
(*   lastResolve, lastCreate, lastCall                                     *)
(*                the outcome of the call of each kind that settled last   *)
(*                (history, read by no operation)                          *)
(* State after start-up: nothing resolved, nothing created.                *)
(***************************************************************************)
Init ==
    /\ env \in Envs
    /\ configs = <<>>
    /\ pending = <<>>
    /\ lastResolve = <<>>
    /\ handles = <<>>
    /\ lastCreate = <<>>
    /\ inflight = <<>>
    /\ lastCall = <<>>

InitSome ==
    /\ env \in SomeEnvs
    /\ configs = <<>>
    /\ pending = <<>>
    /\ lastResolve = <<>>
    /\ handles = <<>>
    /\ lastCreate = <<>>
    /\ inflight = <<>>
    /\ lastCall = <<>>

InitImage ==
    /\ env = ImageEnv
    /\ configs = <<>>
    /\ pending = <<>>
    /\ lastResolve = <<>>
    /\ handles = <<>>
    /\ lastCreate = <<>>
    /\ inflight = <<>>
    /\ lastCall = <<>>

Remove(q, i) == SubSeq(q, 1, i - 1) \o SubSeq(q, i + 1, Len(q))

Suspended(fn) == {i \in 1..Len(pending) : pending[i].fn = fn}

\* createContentGeneratorConfig(model, authType, {getModel}) is called and
\* runs to its return or to its await.  A call that makes no call to
\* getEffectiveModel has returned its config; one that does has read the
\* environment, issued the call and is suspended.
ResolveCall(model, authType, override) ==
    LET s == ConfigUntilAwait(env, model, authType, override)
    IN  /\ Len(configs) + Cardinality(Suspended("createContentGeneratorConfig"))
              < MaxConfigs
        /\ IF s.probes = <<>>
           THEN /\ configs' = Append(configs, s.config)
                /\ lastResolve' = << [model |-> model, authType |-> authType,
                                      override |-> override, probes |-> <<>>,
                                      returned |-> << s.config >>,
                                      error |-> <<>>] >>
                /\ UNCHANGED pending
           ELSE /\ Len(pending) < MaxPending
                /\ pending' = Append(pending,
                        [fn |-> "createContentGeneratorConfig",
                         model |-> model, authType |-> authType,
                         override |-> override,
                         partial |-> s.config, probes |-> s.probes])
                /\ UNCHANGED <<configs, lastResolve>>
        /\ UNCHANGED <<env, handles, lastCreate, inflight, lastCall>>

\* getEffectiveModel answers: the suspended resolver call assigns the model
\* and returns its config
ProbeAnswers(i, available) ==
    /\ i \in Suspended("createContentGeneratorConfig")
    /\ LET p == pending[i]
           c == ConfigAfterAwait(p.partial,
                    getEffectiveModel(p.probes[1][1], p.probes[1][2], available))
       IN  /\ configs' = Append(configs, c)
           /\ lastResolve' = << [model |-> p.model, authType |-> p.authType,
                                 override |-> p.override, probes |-> p.probes,
                                 returned |-> << c >>, error |-> <<>>] >>
    /\ pending' = Remove(pending, i)
    /\ UNCHANGED <<env, handles, lastCreate, inflight, lastCall>>

\* the promise of getEffectiveModel rejects: the await throws, nothing
\* catches it and the resolver call rejects with the same reason, returning
\* no config.  The step is what lines 78 and 93 do with a rejection; it is
\* enabled on every suspended call, whether or not getEffectiveModel ever
\* rejects.
ProbeRejects(i) ==
    /\ i \in Suspended("createContentGeneratorConfig")
    /\ LET p == pending[i]
       IN  lastResolve' = << [model |-> p.model, authType |-> p.authType,
                              override |-> p.override, probes |-> p.probes,
                              returned |-> <<>>, error |-> << ProbeError >>] >>
    /\ pending' = Remove(pending, i)
    /\ UNCHANGED <<env, configs, handles, lastCreate, inflight, lastCall>>

\* the caller builds a config object itself
CallerConfig(c) ==
    /\ Len(configs) + Cardinality(Suspended("createContentGeneratorConfig"))
          < MaxConfigs
    /\ configs' = Append(configs, c)
    /\ UNCHANGED <<env, pending, lastResolve, handles, lastCreate, inflight,
                   lastCall>>

\* the caller assigns to a property of the config object o
MutateConfig(o, f, v) ==
    /\ o \in 1..Len(configs)
    /\ f \in DOMAIN configs[o]
    /\ configs' = [configs EXCEPT ![o][f] = v]
    /\ UNCHANGED <<env, pending, lastResolve, handles, lastCreate, inflight,
                   lastCall>>

\* createContentGenerator(config) is called on the config object o and runs
\* to its return: it returns a handle, throws, or returns the promise of
\* createCodeAssistContentGenerator
Create(o) ==
    /\ o \in 1..Len(configs)
    /\ Len(handles) + Cardinality(Suspended("createContentGenerator")) < MaxHandles
    /\ LET r == createContentGenerator(configs[o], o)
       IN  IF r.awaits = <<>>
           THEN /\ handles' = handles \o r.handle
                /\ lastCreate' = << [config |-> configs[o], clients |-> r.clients,
                                     handle |-> r.handle, error |-> r.error] >>
                /\ UNCHANGED pending
           ELSE /\ Len(pending) < MaxPending
                /\ pending' = Append(pending,
                        [fn |-> "createContentGenerator",
                         config |-> configs[o], awaits |-> r.awaits])
                /\ UNCHANGED <<handles, lastCreate>>
    /\ UNCHANGED <<env, configs, lastResolve, inflight, lastCall>>

\* createCodeAssistContentGenerator answers: its generator is the handle
CodeAssistAnswers(i) ==
    /\ i \in Suspended("createContentGenerator")
    /\ LET p == pending[i]
           h == [kind |-> "codeAssist", client |-> p.awaits[1]]
       IN  /\ handles' = Append(handles, h)
           /\ lastCreate' = << [config |-> p.config, clients |-> p.awaits,
                                handle |-> << h >>, error |-> <<>>] >>
    /\ pending' = Remove(pending, i)
    /\ UNCHANGED <<env, configs, lastResolve, inflight, lastCall>>

\* the promise of createCodeAssistContentGenerator rejects: the factory call,
\* which returned that promise, rejects with the same reason and no handle
\* exists.  Enabled on every suspended call, whether or not
\* createCodeAssistContentGenerator ever rejects.
CodeAssistRejects(i) ==
    /\ i \in Suspended("createContentGenerator")
    /\ LET p == pending[i]
       IN  lastCreate' = << [config |-> p.config, clients |-> <<>>,
                             handle |-> <<>>, error |-> << CodeAssistError >>] >>
    /\ pending' = Remove(pending, i)
    /\ UNCHANGED <<env, configs, lastResolve, handles, inflight, lastCall>>

\* handle.generateContent(request), up to the await: the request is built,
\* reading the model from the config object the wrapper closes over, and
\* handed to the OpenAI client the handle owns
GenerateContent(h, contents) ==
    /\ h \in 1..Len(handles)
    /\ handles[h].kind = "openaiWrapper"
    /\ Len(inflight) < MaxInflight
    /\ inflight' = Append(inflight,
            [handle |-> h, apiKey |-> handles[h].client.apiKey,
             contents |-> contents,
             request |-> ChatCompletionRequest(configs[handles[h].obj], contents)])
    /\ UNCHANGED <<env, configs, pending, lastResolve, handles, lastCreate,
                   lastCall>>

\* the awaited completion arrives and generateContent returns
CompletionArrives(i, completion) ==
    /\ i \in 1..Len(inflight)
    /\ inflight' = Remove(inflight, i)
    /\ lastCall' = << [handle |-> inflight[i].handle, op |-> "generateContent",
                       contents |-> inflight[i].contents,
                       sent |-> << inflight[i].contents >>,
                       completion |-> completion,
                       response |-> << WrapCompletion(completion) >>,
                       error |-> <<>>] >>
    /\ UNCHANGED <<env, configs, pending, lastResolve, handles, lastCreate>>

\* the awaited call rejects and generateContent rejects with the same error
CompletionFails(i) ==
    /\ i \in 1..Len(inflight)
    /\ inflight' = Remove(inflight, i)
    /\ lastCall' = << [handle |-> inflight[i].handle, op |-> "generateContent",
                       contents |-> inflight[i].contents,
                       sent |-> << inflight[i].contents >>,
                       completion |-> <<>>,
                       response |-> <<>>,
                       error |-> << "backend error" >>] >>
    /\ UNCHANGED <<env, configs, pending, lastResolve, handles, lastCreate>>

\* one of the three unsupported operations, called on handle h
Unsupported(h, op, contents, r) ==
    /\ h \in 1..Len(handles)
    /\ handles[h].kind = "openaiWrapper"
    /\ Len(inflight) + Len(r.sent) <= MaxInflight
    /\ inflight' = inflight \o
            [i \in 1..Len(r.sent) |->
                [handle |-> h, apiKey |-> handles[h].client.apiKey,
                 contents |-> r.sent[i],
                 request |-> ChatCompletionRequest(configs[handles[h].obj],
                                                   r.sent[i])]]
    /\ lastCall' = << [handle |-> h, op |-> op, contents |-> contents,
                       sent |-> r.sent, completion |-> <<>>,
                       response |-> <<>>, error |-> r.error] >>
    /\ UNCHANGED <<env, configs, pending, lastResolve, handles, lastCreate>>

GenerateContentStream(h, contents) ==
    Unsupported(h, "generateContentStream", contents, generateContentStream(contents))

CountTokens(h, contents) ==
    Unsupported(h, "countTokens", contents, countTokens(contents))

EmbedContent(h, contents) ==
    Unsupported(h, "embedContent", contents, embedContent(contents))

(***************************************************************************)
(* Spec: resolver calls, caller-built configs and factory calls in any     *)
(* order, a call running while others are suspended.                       *)
(***************************************************************************)
Next ==
    \/ \E model \in {Undefined, "m-req"}, authType \in AuthArgs :
            ResolveCall(model, authType, Undefined)
    \/ \E i \in 1..MaxPending, available \in BOOLEAN : ProbeAnswers(i, available)
    \/ \E i \in 1..MaxPending : ProbeRejects(i)
    \/ \E c \in CallerConfigs : CallerConfig(c)
    \/ \E o \in 1..MaxConfigs : Create(o)
    \/ \E i \in 1..MaxPending : CodeAssistAnswers(i)
    \/ \E i \in 1..MaxPending : CodeAssistRejects(i)

Spec == InitSome /\ [][Next]_vars

(***************************************************************************)
(* SpecSession: a session obtains its config from the resolver and creates *)
(* its handles from it, from every environment and with every argument.    *)
(* The session calls the resolver, one call at a time, until a config is   *)
(* returned.                                                               *)
(***************************************************************************)
NextSession ==
    \/ configs = <<>> /\ pending = <<>> /\
         \E model \in ModelArgs, authType \in AuthArgs, override \in Overrides :
            ResolveCall(model, authType, override)
    \/ \E i \in 1..MaxPending, available \in BOOLEAN : ProbeAnswers(i, available)
    \/ \E i \in 1..MaxPending : ProbeRejects(i)
    \/ \E o \in 1..MaxConfigs : Create(o)
    \/ \E i \in 1..MaxPending : CodeAssistAnswers(i)
    \/ \E i \in 1..MaxPending : CodeAssistRejects(i)

SpecSession == Init /\ [][NextSession]_vars

(***************************************************************************)
(* SpecWrapper: the operations of the OpenAI wrapper, on the handles made  *)
(* from one config, with calls in flight.                                  *)
(***************************************************************************)
NextWrapper ==
    \/ configs = <<>> /\ \E c \in AdapterConfigs : CallerConfig(c)
    \/ Create(1)
    \/ \E h \in 1..MaxHandles, contents \in SomeContents :
            GenerateContent(h, contents)
    \/ \E i \in 1..MaxInflight, completion \in Completions :
            CompletionArrives(i, completion)
    \/ \E i \in 1..MaxInflight : CompletionFails(i)
    \/ \E h \in 1..MaxHandles, contents \in SomeContents :
            GenerateContentStream(h, contents)
    \/ \E h \in 1..MaxHandles, contents \in SomeContents : CountTokens(h, contents)
    \/ \E h \in 1..MaxHandles, contents \in SomeContents : EmbedContent(h, contents)

SpecWrapper == InitImage /\ [][NextWrapper]_vars

(***************************************************************************)
(* SpecAdapter: handles over config objects selecting the OpenAI wrapper,  *)
(* with calls in flight while the caller changes the configs.              *)
(***************************************************************************)
NextAdapter ==
    \/ \E c \in AdapterConfigs : CallerConfig(c)
    \/ \E o \in 1..MaxConfigs : MutateConfig(o, "model", "m2")
    \/ \E o \in 1..MaxConfigs : MutateConfig(o, "apiKey", "k2")
    \/ \E o \in 1..MaxConfigs : Create(o)
    \/ \E h \in 1..MaxHandles : GenerateContent(h, ExampleContents)
    \/ \E i \in 1..MaxInflight, completion \in Completions :
            CompletionArrives(i, completion)
    \/ \E i \in 1..MaxInflight : CompletionFails(i)

SpecAdapter == InitImage /\ [][NextAdapter]_vars

(***************************************************************************)
(* SpecFlatten: one generateContent call on one handle, over the request   *)
(* contents.                                                               *)
(***************************************************************************)
NextFlatten ==
    \/ configs = <<>> /\ \E c \in AdapterConfigs : CallerConfig(c)
    \/ handles = <<>> /\ Create(1)
    \/ inflight = <<>> /\ \E contents \in ContentsValues :
            GenerateContent(1, contents)

SpecFlatten == InitImage /\ [][NextFlatten]_vars

(***************************************************************************)
(* Properties.                                                             *)
(***************************************************************************)
KeyModes == {USE_GEMINI, USE_VERTEX_AI, USE_OPENAI}

\* the credentials a mode needs are all present and non-empty
CredentialsComplete(e, a) ==
    IF a = USE_GEMINI THEN Truthy(e["GEMINI_API_KEY"])
    ELSE IF a = USE_VERTEX_AI
    THEN Truthy(e["GOOGLE_API_KEY"]) /\ Truthy(e["GOOGLE_CLOUD_PROJECT"])
         /\ Truthy(e["GOOGLE_CLOUD_LOCATION"])
    ELSE IF a = USE_OPENAI THEN Truthy(e["OPENAI_API_KEY"])
    ELSE a = LOGIN_WITH_GOOGLE

ModeKey(e, a) ==
    IF a = USE_GEMINI THEN e["GEMINI_API_KEY"]
    ELSE IF a = USE_VERTEX_AI THEN e["GOOGLE_API_KEY"]
    ELSE e["OPENAI_API_KEY"]

\* the resolver calls suspended at their await
SuspendedResolves ==
    {pending[i] : i \in Suspended("createContentGeneratorConfig")}

\* C1: with the mode's credentials all present and non-empty, the config
\* returned by the resolver has authType equal to the argument and apiKey
\* equal to that mode's key; in login mode it has no apiKey.  The resolver
\* fails to return only when its call to getEffectiveModel failed.
C1_CompleteCredentialsSetKey ==
    \A i \in 1..Len(lastResolve) :
        LET r == lastResolve[i]
        IN  (r.authType \in AuthType /\ CredentialsComplete(env, r.authType)) =>
                /\ r.returned = <<>> => (r.probes /= <<>> /\ r.error = << ProbeError >>)
                /\ \A k \in 1..Len(r.returned) :
                    LET c == r.returned[k]
                    IN  /\ c.authType = r.authType
                        /\ IF r.authType = LOGIN_WITH_GOOGLE
                           THEN "apiKey" \notin DOMAIN c
                           ELSE /\ "apiKey" \in DOMAIN c
                                /\ c.apiKey = ModeKey(env, r.authType)

C1_Witness ==
    /\ lastResolve /= <<>>
    /\ lastResolve[1].authType = USE_GEMINI
    /\ env["GEMINI_API_KEY"] = "gemini-key"
    /\ env["GOOGLE_API_KEY"] = Undefined
    /\ lastResolve[1].returned /= <<>>
    /\ Field(lastResolve[1].returned[1], "apiKey") = "gemini-key"

\* C2: every config the resolver returns in a key-based mode has a present,
\* non-empty apiKey.
C2_KeyModesHaveKey ==
    \A i \in 1..Len(lastResolve) :
        \A k \in 1..Len(lastResolve[i].returned) :
            lastResolve[i].returned[k].authType \in KeyModes =>
                Truthy(Field(lastResolve[i].returned[k], "apiKey"))

\* C3: vertexai is true only in vertex mode with key, project and location
\* all present; in vertex mode with one of them missing the resolver
\* returns a config with neither apiKey nor vertexai and getEffectiveModel
\* is not called.
C3_VertexAllOrNothing ==
    /\ \A p \in SuspendedResolves :
        /\ ("vertexai" \in DOMAIN p.partial /\ p.partial.vertexai) =>
                (p.authType = USE_VERTEX_AI /\ CredentialsComplete(env, USE_VERTEX_AI))
        /\ p.authType = USE_VERTEX_AI => CredentialsComplete(env, USE_VERTEX_AI)
    /\ \A i \in 1..Len(lastResolve) :
        LET r == lastResolve[i]
        IN  /\ \A k \in 1..Len(r.returned) :
                ("vertexai" \in DOMAIN r.returned[k] /\ r.returned[k].vertexai) =>
                    (r.authType = USE_VERTEX_AI
                     /\ CredentialsComplete(env, USE_VERTEX_AI))
            /\ (r.authType = USE_VERTEX_AI /\ ~CredentialsComplete(env, USE_VERTEX_AI)) =>
                /\ Len(r.returned) = 1
                /\ "apiKey" \notin DOMAIN r.returned[1]
                /\ "vertexai" \notin DOMAIN r.returned[1]
                /\ r.probes = <<>>

C3_Witness ==
    /\ lastResolve /= <<>>
    /\ lastResolve[1].authType = USE_VERTEX_AI
    /\ env["GOOGLE_API_KEY"] = "google-key"
    /\ env["GOOGLE_CLOUD_PROJECT"] = "proj"
    /\ env["GOOGLE_CLOUD_LOCATION"] = ""
    /\ lastResolve[1].returned /= <<>>
    /\ DOMAIN lastResolve[1].returned[1] = {"model", "authType"}

\* C4 as stated: in login mode and in openai mode getEffectiveModel is never
\* called and the model is the override's result if an override is
\* supplied, else the requested model if one is given, else the default; in
\* login mode the config holds only model and authType.
C4_ModelPrecedenceAsStated ==
    /\ \A p \in SuspendedResolves : p.authType \notin {LOGIN_WITH_GOOGLE, USE_OPENAI}
    /\ \A i \in 1..Len(lastResolve) :
        LET r == lastResolve[i]
        IN  r.authType \in {LOGIN_WITH_GOOGLE, USE_OPENAI} =>
                /\ r.probes = <<>>
                /\ Len(r.returned) = 1
                /\ r.returned[1].model =
                        IF r.override /= Undefined THEN r.override
                        ELSE IF r.model /= Undefined THEN r.model
                        ELSE DEFAULT_GEMINI_MODEL
                /\ r.authType = LOGIN_WITH_GOOGLE =>
                        DOMAIN r.returned[1] = {"model", "authType"}

\* C4 amended: the same, with the model being the override's result if an
\* override is supplied and returns a non-empty string, else the requested
\* model if it is given and non-empty, else the default.
C4_ModelPrecedence ==
    /\ \A p \in SuspendedResolves : p.authType \notin {LOGIN_WITH_GOOGLE, USE_OPENAI}
    /\ \A i \in 1..Len(lastResolve) :
        LET r == lastResolve[i]
        IN  r.authType \in {LOGIN_WITH_GOOGLE, USE_OPENAI} =>
                /\ r.probes = <<>>
                /\ Len(r.returned) = 1
                /\ r.returned[1].model =
                        IF r.override \notin {Undefined, ""} THEN r.override
                        ELSE IF r.model \notin {Undefined, ""} THEN r.model
                        ELSE DEFAULT_GEMINI_MODEL
                /\ r.authType = LOGIN_WITH_GOOGLE =>
                        DOMAIN r.returned[1] = {"model", "authType"}

C4_Witness ==
    /\ lastResolve /= <<>>
    /\ lastResolve[1].authType = USE_OPENAI
    /\ lastResolve[1].override = "m-cfg"
    /\ lastResolve[1].model = "m-req"
    /\ env["OPENAI_API_KEY"] = "openai-key"
    /\ lastResolve[1].returned /= <<>>
    /\ lastResolve[1].returned[1].model = "m-cfg"

\* C5: the factory throws the unsupported-authType error, constructs no
\* client and returns no handle when authType is none of the four modes, and
\* when authType is openai and apiKey is absent or empty.
C5_UnsupportedAuthType ==
    \A i \in 1..Len(lastCreate) :
        LET r == lastCreate[i]
            a == r.config.authType
        IN  (a \notin AuthType
             \/ (a = USE_OPENAI /\ Field(r.config, "apiKey") \in {Undefined, ""})) =>
                /\ r.error = << "Error creating contentGenerator: Unsupported authType: "
                                \o a >>
                /\ r.clients = <<>>
                /\ r.handle = <<>>

C5_Witness ==
    /\ lastCreate /= <<>>
    /\ lastCreate[1].config.authType = USE_OPENAI
    /\ Field(lastCreate[1].config, "apiKey") = ""
    /\ lastCreate[1].error /= <<>>

NotImplementedMessage(op) ==
    IF op = "generateContentStream" THEN "OpenAI streaming not implemented"
    ELSE IF op = "countTokens" THEN "OpenAI token counting not implemented"
    ELSE "OpenAI embedding not implemented"

\* C6: on an OpenAI handle generateContentStream, countTokens and
\* embedContent each reject with their not-implemented error, return
\* nothing and send nothing to the backend.
C6_UnsupportedOperations ==
    \A i \in 1..Len(lastCall) :
        LET r == lastCall[i]
        IN  r.op \in {"generateContentStream", "countTokens", "embedContent"} =>
                /\ handles[r.handle].kind = "openaiWrapper"
                /\ r.error = << NotImplementedMessage(r.op) >>
                /\ r.response = <<>>
                /\ r.sent = <<>>

C6_Witness ==
    /\ lastCall /= <<>>
    /\ lastCall[1].op = "generateContentStream"
    /\ lastCall[1].error = << "OpenAI streaming not implemented" >>
    /\ Len(handles) = 2
    /\ lastCall[1].handle = 2

\* the flattening as the claim words it
ClaimedPartText(p) ==
    CASE p.t = "string" -> p.v
      [] p.t = "object" /\ "text" \in DOMAIN p /\ p.text /= Undefined -> p.text
      [] OTHER -> ""

RECURSIVE ClaimedJoin(_, _)
ClaimedJoin(strs, n) ==
    IF n = 0 THEN ""
    ELSE IF n = 1 THEN strs[1]
    ELSE ClaimedJoin(strs, n - 1) \o "\n" \o strs[n]

ClaimedItemText(c) ==
    CASE c.t = "string" -> c.v
      [] c.t = "object" /\ "text" \in DOMAIN c ->
            IF c.text = Undefined THEN "" ELSE c.text
      [] c.t = "object" /\ "text" \notin DOMAIN c /\ "parts" \in DOMAIN c ->
            ClaimedJoin([k \in 1..Len(c.parts) |-> ClaimedPartText(c.parts[k])],
                        Len(c.parts))
      [] OTHER -> ""

ClaimedPrompt(contents) ==
    CASE contents.t = "array" ->
            ClaimedJoin([k \in 1..Len(contents.items) |->
                            ClaimedItemText(contents.items[k])],
                        Len(contents.items))
      [] contents.t = "string" -> contents.v
      [] OTHER -> IF "text" \in DOMAIN contents /\ contents.text /= Undefined
                  THEN contents.text ELSE ""

IsExample(contents) ==
    /\ contents.t = "array"
    /\ Len(contents.items) = 2
    /\ DOMAIN contents.items[1] = {"t", "text"}
    /\ contents.items[1].text = "a"
    /\ DOMAIN contents.items[2] = {"t", "parts"}
    /\ Len(contents.items[2].parts) = 2
    /\ DOMAIN contents.items[2].parts[1] = {"t", "text"}
    /\ contents.items[2].parts[1].text = "b"
    /\ contents.items[2].parts[2].t = "string"
    /\ contents.items[2].parts[2].v = "c"

\* C7: generateContent sends exactly one message, of role user, whose
\* content is the flattening of request.contents; for
\* [ {text: "a"}, {parts: [ {text: "b"}, "c" ]} ] it is "a\nb\nc".
C7_PromptIsFlattening ==
    \A i \in 1..Len(inflight) :
        LET r == inflight[i]
        IN  /\ Len(r.request.messages) = 1
            /\ r.request.messages[1].role = "user"
            /\ r.request.messages[1].content = ClaimedPrompt(r.contents)
            /\ IsExample(r.contents) => r.request.messages[1].content = "a\nb\nc"

C7_Witness ==
    /\ inflight /= <<>>
    /\ IsExample(inflight[1].contents)
    /\ inflight[1].request.messages[1].content = "a\nb\nc"

\* C8: a generateContent call that succeeds returns one candidate whose
\* content has one part, whose text is the message content of the
\* completion's first choice.
C8_ResponseCarriesFirstChoice ==
    \A i \in 1..Len(lastCall) :
        LET r == lastCall[i]
        IN  (r.op = "generateContent" /\ r.error = <<>>) =>
                /\ Len(r.response) = 1
                /\ DOMAIN r.response[1] = {"candidates"}
                /\ Len(r.response[1].candidates) = 1
                /\ Len(r.response[1].candidates[1].content.parts) = 1
                /\ DOMAIN r.response[1].candidates[1].content.parts[1] = {"text"}
                /\ r.response[1].candidates[1].content.parts[1].text = r.completion[1]

C8_Witness ==
    /\ lastCall /= <<>>
    /\ lastCall[1].op = "generateContent"
    /\ IsExample(lastCall[1].contents)
    /\ lastCall[1].completion = << "hello", "" >>
    /\ lastCall[1].response[1].candidates[1].content.parts[1].text = "hello"

\* C9: every request a handle sends carries the key and the model that the
\* config held when the handle was created.
C9_HandleOwnsKeyAndModel ==
    \A i \in 1..Len(inflight) :
        LET r == inflight[i]
            c == handles[r.handle].created
        IN  /\ r.apiKey = c.apiKey
            /\ r.request.model = IF c.model = "" THEN DEFAULT_OPENAI_MODEL ELSE c.model

\* a factory call on the config a resolver call returned
CreatedFrom(k, r) ==
    r.returned /= <<>> /\ k.config = r.returned[1]

====
